---------------------------- MODULE Spec2Model ----------------------------
(***************************************************************************)
(* The in-memory educational-records service of src/main.py: the Person,   *)
(* Course and Enrollment stores and the handlers that keep a course's      *)
(* current_enrollment counter next to the enrollments that reference it.   *)
(*                                                                         *)
(* The state of the program is its stores.  A handler is an operator of    *)
(* the stores and the request: it gives the stores as the handler leaves   *)
(* them and the response it returns.  One action per handler applies it;   *)
(* a handler runs to completion (the sequential reading of the service).   *)
(* Fields of the records that no modelled handler reads (titles, dates,    *)
(* grades, timestamps ...) are left out of the records.                    *)
(***************************************************************************)
EXTENDS Integers, Sequences, FiniteSets, TLC

(***************************************************************************)
(* Bounds of the model.                                                    *)
(***************************************************************************)
MaxEnrollments == 2      \* enrollment identifiers uuid4 can hand out
MaxCapacity == 1         \* largest max_enrollment a payload carries

\* course.py:73  current_enrollment: int = Field(default=0, ...).  The course
\* payloads of the model leave the field at its default.
DefaultCurrentEnrollment == 0

(***************************************************************************)
(* Identifiers.  The handlers only compare identifiers for equality and    *)
(* touch one course and one person per request, so two course identifiers  *)
(* (the one addressed and another), one person and two unis (the one asked *)
(* for and another) are the cases there are.                               *)
(***************************************************************************)
PersonIds == {"p1"}
CourseIds == {"c1", "c2"}
EnrollmentIds == 1..MaxEnrollments
Unis == {"abc1234", "xy123"}

(***************************************************************************)
(* Optional[T]: None is the empty tuple, a value v is <<v>>.  A field of a  *)
(* partial-update payload is Unset (left out of the request body) or        *)
(* Given(x) with x the value sent, which may be None.                       *)
(***************************************************************************)
None == <<>>
Some(v) == <<v>>
Optional(S) == {None} \cup {Some(v) : v \in S}
Unset == <<>>
Given(x) == <<x>>
Sparse(S) == {Unset} \cup {Given(x) : x \in S}

\* EnrollmentStatus (enrollment.py:15-21)
EnrollmentStatus == {"pending", "active", "dropped", "completed", "withdrawn"}

VARIABLES
    persons,       \* main.py:25  person id -> [uni]
    addresses,     \* main.py:26  address id -> [street, state]
    courses,       \* main.py:27  course id -> [is_active, max_enrollment, current_enrollment]
    enrollments,   \* main.py:28  insertion-ordered dict: a sequence of records with an id
    issued,        \* per store, the identifiers that have ever been one of its keys
    n_created,     \* history: successful create_enrollment calls, per course id
    n_deleted,     \* history: successful delete_enrollment calls, per course id
    set_directly,  \* history: course ids whose counter was written past those calls
    running        \* per worker thread, the request it is in the middle of

vars ==
    <<persons, addresses, courses, enrollments, issued, n_created, n_deleted,
      set_directly, running>>
history == <<n_created, n_deleted, set_directly>>

\* The worker threads of the server, and the frame of one that handles no
\* request.  A frame holds the statement the thread is at and its locals:
\* the enrollment of the request and the counter value it has loaded.
Threads == {"t1", "t2"}
Idle == [pc |-> "idle", enrollment |-> <<>>, counter |-> 0]

\* The stores as one value: what a handler is given.  response is what the
\* handler returns; no request has been answered in db.
NoResponse == [status |-> 0, detail |-> ""]
db ==
    [persons |-> persons, courses |-> courses, enrollments |-> enrollments,
     issued |-> issued, response |-> NoResponse]

(***************************************************************************)
(* The stores.  persons and courses are dicts whose iteration order no     *)
(* modelled handler observes: functions.  enrollments is iterated by the   *)
(* cross-resource queries, so it keeps Python's dict order: a sequence of  *)
(* records, a new key appended, an existing key overwritten in place.      *)
(***************************************************************************)
Put(d, k, v) == [x \in DOMAIN d \cup {k} |-> IF x = k THEN v ELSE d[x]]
Del(d, k) == [x \in DOMAIN d \ {k} |-> d[x]]

Keys(d) == {d[i].id : i \in DOMAIN d}
Lookup(d, k) == d[CHOOSE i \in DOMAIN d : d[i].id = k]
DictSet(d, k, rec) ==
    IF k \in Keys(d)
    THEN [i \in DOMAIN d |-> IF d[i].id = k THEN rec ELSE d[i]]
    ELSE Append(d, rec)
DictDel(d, k) == SelectSeq(d, LAMBDA r : r.id # k)

(***************************************************************************)
(* default_factory=uuid4: an identifier that was never a key of the store. *)
(* The handlers only compare identifiers for equality, so which fresh one  *)
(* it is makes no difference: the model takes one of them.  The handlers   *)
(* that mint an identifier take it as their last argument; the set is      *)
(* empty when the pool of the model is used up.                            *)
(***************************************************************************)
\* A generator that hands out the first identifier of the pool every time.
uuid4_repeating(s, store, pool) ==
    IF pool \ s.issued[store] = {} THEN {} ELSE {CHOOSE id \in pool : TRUE}

uuid4(s, store, pool) ==
    LET fresh == pool \ s.issued[store] IN
    IF fresh = {} THEN {} ELSE {CHOOSE id \in fresh : TRUE}

(***************************************************************************)
(* Request payloads, after the HTTP layer's schema validation.             *)
(***************************************************************************)
\* CourseCreate (course.py:13-93,120): id is None when the body leaves it out.
CourseCreate ==
    [id : Optional(CourseIds),
     is_active : BOOLEAN,
     max_enrollment : Optional(1..MaxCapacity),
     current_enrollment : {DefaultCurrentEnrollment}]

\* CourseUpdate (course.py:146-166): it has no current_enrollment field.
CourseUpdate ==
    [is_active : Sparse(Optional(BOOLEAN)),
     max_enrollment : Sparse(Optional(1..MaxCapacity))]

\* EnrollmentCreate (enrollment.py:24-81,104): it has no id field.
EnrollmentCreate(unis, statuses) ==
    [student_uni : unis, course_id : CourseIds, status : statuses]

\* EnrollmentUpdate (enrollment.py:123-140)
EnrollmentUpdate(unis, statuses) ==
    [student_uni : Sparse(Optional(unis)),
     course_id : Sparse(Optional(CourseIds)),
     status : Sparse(Optional(statuses))]

\* PersonCreate / PersonUpdate: the uni is the only field a handler reads.
PersonCreate(unis) == [uni : unis]
PersonUpdate(unis) == [uni : Sparse(Optional(unis))]

\* CourseRead(**course.model_dump()), without the id it is stored under.
CourseRead(course) ==
    [is_active |-> course.is_active,
     max_enrollment |-> course.max_enrollment,
     current_enrollment |-> course.current_enrollment]

\* EnrollmentRead(id=..., **enrollment.model_dump())
EnrollmentRead(id, enrollment) ==
    [id |-> id,
     student_uni |-> enrollment.student_uni,
     course_id |-> enrollment.course_id,
     status |-> enrollment.status]

\* A merge that resets a field the payload leaves out to null.
MergedOrNull(stored, field) == IF field = Unset THEN None ELSE field[1]

\* stored.update(update.model_dump(exclude_unset=True)), one field of it.
Merged(stored, field) == IF field = Unset THEN stored ELSE field[1]

(***************************************************************************)
(* Responses: the status code and the detail of the error.  raise          *)
(* HTTPException leaves the handler with the stores as they are.           *)
(***************************************************************************)
Return(s, status) == [s EXCEPT !.response = [status |-> status, detail |-> ""]]

HTTPException(s, status, detail) ==
    [s EXCEPT !.response = [status |-> status, detail |-> detail]]

\* A pydantic ValidationError raised inside a handler: 500, nothing written.
ValidationError(s) == HTTPException(s, 500, "Internal Server Error")

\* The error kinds of the service, by status and detail.
NotFoundError(r) == r.status = 404
ReferenceError(r) ==
    r.status = 400 /\ r.detail \in {"Student not found", "Course not found"}
PreconditionError(r) == r.status = 400 /\ r.detail = "Course is not active"
CapacityError(r) == r.status = 400 /\ r.detail = "Course enrollment is full"
Succeeded(r) == r.status \in {200, 201, 204}

(***************************************************************************)
(* Person endpoints (main.py:110-164).                                     *)
(***************************************************************************)
create_person(s, person, id) ==
    Return([s EXCEPT !.persons = Put(@, id, [uni |-> person.uni]),
                     !.issued.persons = @ \cup {id}],
           201)

update_person(s, person_id, update) ==
    IF person_id \notin DOMAIN s.persons
    THEN HTTPException(s, 404, "Person not found")
    ELSE LET uni == Merged(Some(s.persons[person_id].uni), update.uni) IN
         IF uni = None
         THEN ValidationError(s)
         ELSE Return([s EXCEPT !.persons = Put(@, person_id, [uni |-> uni[1]])],
                     200)

\* A student check that passes whatever the uni.
AnyStudent(s, student_uni) == TRUE

\* any(p.uni == student_uni for p in persons.values())
StudentExists(s, student_uni) ==
    \E p \in DOMAIN s.persons : s.persons[p].uni = student_uni

(***************************************************************************)
(* Course endpoints (main.py:171-238).                                     *)
(***************************************************************************)
create_course(s, course, id) ==
    LET key == IF course.id = None THEN id ELSE course.id[1] IN
    Return([s EXCEPT !.courses = Put(@, key, CourseRead(course)),
                     !.issued.courses = @ \cup {key}],
           201)

replace_course(s, course_id, course) ==
    IF course_id \notin DOMAIN s.courses
    THEN HTTPException(s, 404, "Course not found")
    ELSE Return([s EXCEPT !.courses = Put(@, course_id, CourseRead(course))],
                200)

\* A partial update that builds the course anew, counter at its default.
update_course_resetting(s, course_id, update) ==
    IF course_id \notin DOMAIN s.courses
    THEN HTTPException(s, 404, "Course not found")
    ELSE Return([s EXCEPT !.courses = Put(@, course_id,
                    [is_active |-> TRUE,
                     max_enrollment |-> s.courses[course_id].max_enrollment,
                     current_enrollment |-> 0])],
                200)

update_course(s, course_id, update) ==
    IF course_id \notin DOMAIN s.courses
    THEN HTTPException(s, 404, "Course not found")
    ELSE LET stored == s.courses[course_id]
             is_active == Merged(Some(stored.is_active), update.is_active)
             max_enrollment == Merged(stored.max_enrollment, update.max_enrollment)
         IN  IF is_active = None
             THEN ValidationError(s)
             ELSE Return([s EXCEPT !.courses = Put(@, course_id,
                              [is_active |-> is_active[1],
                               max_enrollment |-> max_enrollment,
                               current_enrollment |-> stored.current_enrollment])],
                         200)

\* A deletion that takes the enrollments of the course with it.
delete_course_cascading(s, course_id) ==
    IF course_id \notin DOMAIN s.courses
    THEN HTTPException(s, 404, "Course not found")
    ELSE Return([s EXCEPT
                    !.courses = Del(@, course_id),
                    !.enrollments = SelectSeq(@, LAMBDA e : e.course_id # course_id)],
                204)

delete_course(s, course_id) ==
    IF course_id \notin DOMAIN s.courses
    THEN HTTPException(s, 404, "Course not found")
    ELSE Return([s EXCEPT !.courses = Del(@, course_id)], 204)

(***************************************************************************)
(* Enrollment endpoints (main.py:245-351).                                 *)
(***************************************************************************)
\* A capacity check that never finds a course full.
NeverFull(course) == FALSE

\* A capacity check that lets one enrollment past the maximum.
FullBeyond(course) ==
    /\ course.max_enrollment # None
    /\ course.current_enrollment > course.max_enrollment[1]

\* main.py:259  course.max_enrollment and current_enrollment >= max_enrollment
Full(course) ==
    /\ course.max_enrollment # None
    /\ course.max_enrollment[1] # 0
    /\ course.current_enrollment >= course.max_enrollment[1]

\* An increment that counts an enrollment twice.
IncrementedTwice(course) ==
    [course EXCEPT !.current_enrollment = @ + 2]

\* main.py:266  course.current_enrollment += 1
Incremented(course) ==
    [course EXCEPT !.current_enrollment = @ + 1]

\* A decrement without the floor at zero.
DecrementedBelowZero(course) ==
    [course EXCEPT !.current_enrollment = @ - 1]

\* main.py:348  course.current_enrollment = max(0, course.current_enrollment - 1)
Decremented(course) ==
    [course EXCEPT !.current_enrollment = IF @ - 1 > 0 THEN @ - 1 ELSE 0]

\* A creation that counts an enrollment only while its status holds a seat.
create_enrollment_counting_seated(s, enrollment, id) ==
    IF ~StudentExists(s, enrollment.student_uni)
    THEN HTTPException(s, 400, "Student not found")
    ELSE IF enrollment.course_id \notin DOMAIN s.courses
    THEN HTTPException(s, 400, "Course not found")
    ELSE IF ~s.courses[enrollment.course_id].is_active
    THEN HTTPException(s, 400, "Course is not active")
    ELSE IF Full(s.courses[enrollment.course_id])
    THEN HTTPException(s, 400, "Course enrollment is full")
    ELSE Return([s EXCEPT
                    !.enrollments = DictSet(@, id, EnrollmentRead(id, enrollment)),
                    !.issued.enrollments = @ \cup {id},
                    !.courses = IF enrollment.status \in {"pending", "active"}
                                THEN Put(@, enrollment.course_id,
                                         Incremented(@[enrollment.course_id]))
                                ELSE @],
                201)

\* A creation that skips the is_active check.
create_enrollment_inactive(s, enrollment, id) ==
    IF ~StudentExists(s, enrollment.student_uni)
    THEN HTTPException(s, 400, "Student not found")
    ELSE IF enrollment.course_id \notin DOMAIN s.courses
    THEN HTTPException(s, 400, "Course not found")
    ELSE IF Full(s.courses[enrollment.course_id])
    THEN HTTPException(s, 400, "Course enrollment is full")
    ELSE Return([s EXCEPT
                    !.enrollments = DictSet(@, id, EnrollmentRead(id, enrollment)),
                    !.issued.enrollments = @ \cup {id},
                    !.courses = Put(@, enrollment.course_id,
                                    Incremented(@[enrollment.course_id]))],
                201)

create_enrollment(s, enrollment, id) ==
    IF ~StudentExists(s, enrollment.student_uni)
    THEN HTTPException(s, 400, "Student not found")
    ELSE IF enrollment.course_id \notin DOMAIN s.courses
    THEN HTTPException(s, 400, "Course not found")
    ELSE IF ~s.courses[enrollment.course_id].is_active
    THEN HTTPException(s, 400, "Course is not active")
    ELSE IF Full(s.courses[enrollment.course_id])
    THEN HTTPException(s, 400, "Course enrollment is full")
    ELSE Return([s EXCEPT
                    !.enrollments = DictSet(@, id, EnrollmentRead(id, enrollment)),
                    !.issued.enrollments = @ \cup {id},
                    !.courses = Put(@, enrollment.course_id,
                                    Incremented(@[enrollment.course_id]))],
                201)

\* A replacement that moves the seat with the enrollment: it decrements the
\* course of the stored record and increments the course of the payload.
replace_enrollment_recounting(s, enrollment_id, enrollment) ==
    IF enrollment_id \notin Keys(s.enrollments)
    THEN HTTPException(s, 404, "Enrollment not found")
    ELSE IF enrollment.course_id \notin DOMAIN s.courses
    THEN HTTPException(s, 400, "Course not found")
    ELSE IF ~s.courses[enrollment.course_id].is_active
    THEN HTTPException(s, 400, "Course is not active")
    ELSE IF Full(s.courses[enrollment.course_id])
    THEN HTTPException(s, 400, "Course enrollment is full")
    ELSE LET old == Lookup(s.enrollments, enrollment_id).course_id
             left == IF old \in DOMAIN s.courses
                     THEN Put(s.courses, old, Decremented(s.courses[old]))
                     ELSE s.courses
         IN  Return([s EXCEPT
                        !.enrollments =
                            DictSet(@, enrollment_id,
                                    EnrollmentRead(enrollment_id, enrollment)),
                        !.courses = Put(left, enrollment.course_id,
                                        Incremented(left[enrollment.course_id]))],
                    200)

\* A replacement that writes the record before it validates the course.
replace_enrollment_writing_first(s, enrollment_id, enrollment) ==
    IF enrollment_id \notin Keys(s.enrollments)
    THEN HTTPException(s, 404, "Enrollment not found")
    ELSE LET written == [s EXCEPT !.enrollments =
                            DictSet(@, enrollment_id,
                                    EnrollmentRead(enrollment_id, enrollment))]
         IN  IF enrollment.course_id \notin DOMAIN s.courses
             THEN HTTPException(written, 400, "Course not found")
             ELSE IF ~s.courses[enrollment.course_id].is_active
             THEN HTTPException(written, 400, "Course is not active")
             ELSE IF Full(s.courses[enrollment.course_id])
             THEN HTTPException(written, 400, "Course enrollment is full")
             ELSE Return(written, 200)

\* A replacement that does not count the seat the replaced enrollment holds:
\* it skips the capacity check when the payload keeps the course.
replace_enrollment_discounting(s, enrollment_id, enrollment) ==
    IF enrollment_id \notin Keys(s.enrollments)
    THEN HTTPException(s, 404, "Enrollment not found")
    ELSE IF enrollment.course_id \notin DOMAIN s.courses
    THEN HTTPException(s, 400, "Course not found")
    ELSE IF ~s.courses[enrollment.course_id].is_active
    THEN HTTPException(s, 400, "Course is not active")
    ELSE IF /\ Lookup(s.enrollments, enrollment_id).course_id # enrollment.course_id
            /\ Full(s.courses[enrollment.course_id])
    THEN HTTPException(s, 400, "Course enrollment is full")
    ELSE Return([s EXCEPT !.enrollments =
                    DictSet(@, enrollment_id,
                            EnrollmentRead(enrollment_id, enrollment))],
                200)

replace_enrollment(s, enrollment_id, enrollment) ==
    IF enrollment_id \notin Keys(s.enrollments)
    THEN HTTPException(s, 404, "Enrollment not found")
    ELSE IF enrollment.course_id \notin DOMAIN s.courses
    THEN HTTPException(s, 400, "Course not found")
    ELSE IF ~s.courses[enrollment.course_id].is_active
    THEN HTTPException(s, 400, "Course is not active")
    ELSE IF Full(s.courses[enrollment.course_id])
    THEN HTTPException(s, 400, "Course enrollment is full")
    ELSE Return([s EXCEPT !.enrollments =
                    DictSet(@, enrollment_id,
                            EnrollmentRead(enrollment_id, enrollment))],
                200)

\* A partial update that merges the course_id it is given without looking it up.
update_enrollment_unchecked(s, enrollment_id, update) ==
    IF enrollment_id \notin Keys(s.enrollments)
    THEN HTTPException(s, 404, "Enrollment not found")
    ELSE LET stored == Lookup(s.enrollments, enrollment_id)
             student_uni == Merged(Some(stored.student_uni), update.student_uni)
             course_id == Merged(Some(stored.course_id), update.course_id)
             status == Merged(Some(stored.status), update.status)
         IN  IF student_uni = None \/ course_id = None \/ status = None
             THEN ValidationError(s)
             ELSE Return([s EXCEPT !.enrollments =
                             DictSet(@, enrollment_id,
                                     [id |-> enrollment_id,
                                      student_uni |-> student_uni[1],
                                      course_id |-> course_id[1],
                                      status |-> status[1]])],
                         200)

\* A partial update that refuses to move an enrollment to an inactive course.
update_enrollment_checking(s, enrollment_id, update) ==
    IF enrollment_id \notin Keys(s.enrollments)
    THEN HTTPException(s, 404, "Enrollment not found")
    ELSE IF /\ update.course_id # Unset
            /\ update.course_id[1] # None
            /\ update.course_id[1][1] \notin DOMAIN s.courses
    THEN HTTPException(s, 400, "Course not found")
    ELSE IF /\ update.course_id # Unset
            /\ update.course_id[1] # None
            /\ ~s.courses[update.course_id[1][1]].is_active
    THEN HTTPException(s, 400, "Course is not active")
    ELSE LET stored == Lookup(s.enrollments, enrollment_id)
             student_uni == Merged(Some(stored.student_uni), update.student_uni)
             course_id == Merged(Some(stored.course_id), update.course_id)
             status == Merged(Some(stored.status), update.status)
         IN  IF student_uni = None \/ course_id = None \/ status = None
             THEN ValidationError(s)
             ELSE Return([s EXCEPT !.enrollments =
                             DictSet(@, enrollment_id,
                                     [id |-> enrollment_id,
                                      student_uni |-> student_uni[1],
                                      course_id |-> course_id[1],
                                      status |-> status[1]])],
                         200)

update_enrollment(s, enrollment_id, update) ==
    IF enrollment_id \notin Keys(s.enrollments)
    THEN HTTPException(s, 404, "Enrollment not found")
    ELSE IF /\ update.course_id # Unset
            /\ update.course_id[1] # None
            /\ update.course_id[1][1] \notin DOMAIN s.courses
    THEN HTTPException(s, 400, "Course not found")
    ELSE LET stored == Lookup(s.enrollments, enrollment_id)
             student_uni == Merged(Some(stored.student_uni), update.student_uni)
             course_id == Merged(Some(stored.course_id), update.course_id)
             status == Merged(Some(stored.status), update.status)
         IN  IF student_uni = None \/ course_id = None \/ status = None
             THEN ValidationError(s)
             ELSE Return([s EXCEPT !.enrollments =
                             DictSet(@, enrollment_id,
                                     [id |-> enrollment_id,
                                      student_uni |-> student_uni[1],
                                      course_id |-> course_id[1],
                                      status |-> status[1]])],
                         200)

\* A deletion that answers 204 for an identifier it does not hold, and
\* decrements every course when it does.
delete_enrollment_lenient(s, enrollment_id) ==
    IF enrollment_id \notin Keys(s.enrollments)
    THEN Return([s EXCEPT !.courses =
                    [c \in DOMAIN @ |-> Decremented(@[c])]], 204)
    ELSE LET enrollment == Lookup(s.enrollments, enrollment_id) IN
         Return([s EXCEPT
                    !.courses =
                        IF enrollment.course_id \in DOMAIN @
                        THEN Put(@, enrollment.course_id,
                                 Decremented(@[enrollment.course_id]))
                        ELSE @,
                    !.enrollments = DictDel(@, enrollment_id)],
                204)

delete_enrollment(s, enrollment_id) ==
    IF enrollment_id \notin Keys(s.enrollments)
    THEN HTTPException(s, 404, "Enrollment not found")
    ELSE LET enrollment == Lookup(s.enrollments, enrollment_id) IN
         Return([s EXCEPT
                    !.courses =
                        IF enrollment.course_id \in DOMAIN @
                        THEN Put(@, enrollment.course_id,
                                 Decremented(@[enrollment.course_id]))
                        ELSE @,
                    !.enrollments = DictDel(@, enrollment_id)],
                204)

(***************************************************************************)
(* The service.  Init is the module-level state of main.py:25-28; a step   *)
(* hands one request to its handler and leaves the stores as the handler   *)
(* left them.                                                              *)
(***************************************************************************)
Init ==
    /\ persons = <<>>
    /\ addresses = <<>>
    /\ courses = <<>>
    /\ enrollments = <<>>
    /\ issued = [persons |-> {}, courses |-> {}, enrollments |-> {}]
    /\ n_created = [c \in CourseIds |-> 0]
    /\ n_deleted = [c \in CourseIds |-> 0]
    /\ set_directly = {}
    /\ running = [t \in Threads |-> Idle]

Handled(out) ==
    /\ persons' = out.persons
    /\ courses' = out.courses
    /\ enrollments' = out.enrollments
    /\ issued' = out.issued

\* The requests of Spec: a person holds either uni, and enrollments ask for
\* one student with one status, so that the student of a request may or may
\* not exist.  A partial update of an enrollment leaves the status out or
\* sends null for it: no handler reads a status.
Students == {"abc1234"}
Pending == {"pending"}

CreatePerson ==
    \E person \in PersonCreate(Unis), id \in uuid4(db, "persons", PersonIds) :
        Handled(create_person(db, person, id))
UpdatePerson ==
    \E id \in PersonIds, update \in PersonUpdate(Unis) :
        Handled(update_person(db, id, update))
CreateCourse ==
    \E course \in CourseCreate :
        \E id \in (IF course.id = None THEN uuid4(db, "courses", CourseIds)
                                       ELSE {course.id[1]}) :
            Handled(create_course(db, course, id))
\* exclude={"id"}: the id of a replacement payload is never read.
ReplaceCourse ==
    \E id \in CourseIds, course \in CourseCreate :
        course.id = None /\ Handled(replace_course(db, id, course))
UpdateCourse ==
    \E id \in CourseIds, update \in CourseUpdate :
        Handled(update_course(db, id, update))
DeleteCourse == \E id \in CourseIds : Handled(delete_course(db, id))
CreateEnrollment ==
    \E enrollment \in EnrollmentCreate(Students, Pending),
       id \in uuid4(db, "enrollments", EnrollmentIds) :
        Handled(create_enrollment(db, enrollment, id))
ReplaceEnrollment ==
    \E id \in EnrollmentIds, enrollment \in EnrollmentCreate(Students, Pending) :
        Handled(replace_enrollment(db, id, enrollment))
UpdateEnrollment ==
    \E id \in EnrollmentIds, update \in EnrollmentUpdate(Students, {}) :
        Handled(update_enrollment(db, id, update))
DeleteEnrollment == \E id \in EnrollmentIds : Handled(delete_enrollment(db, id))

Next ==
    \/ CreatePerson /\ UNCHANGED <<history, running, addresses>>
    \/ UpdatePerson /\ UNCHANGED <<history, running, addresses>>
    \/ CreateCourse /\ UNCHANGED <<history, running, addresses>>
    \/ ReplaceCourse /\ UNCHANGED <<history, running, addresses>>
    \/ UpdateCourse /\ UNCHANGED <<history, running, addresses>>
    \/ DeleteCourse /\ UNCHANGED <<history, running, addresses>>
    \/ CreateEnrollment /\ UNCHANGED <<history, running, addresses>>
    \/ ReplaceEnrollment /\ UNCHANGED <<history, running, addresses>>
    \/ UpdateEnrollment /\ UNCHANGED <<history, running, addresses>>
    \/ DeleteEnrollment /\ UNCHANGED <<history, running, addresses>>

Spec == Init /\ [][Next]_vars

(***************************************************************************)
(* The service with its history: the same requests, and next to them the   *)
(* tallies the counter is specified against.  A creation or deletion is    *)
(* tallied under the course its enrollment references at the call; a       *)
(* course is set_directly once its counter is written, or an enrollment    *)
(* is made to reference it, otherwise than by those two calls on a course  *)
(* created empty under a new identifier.  is_active only decides whether a *)
(* creation is refused, which Spec covers: here the courses stay active    *)
(* and the persons hold the uni the enrollments ask for.                   *)
(***************************************************************************)
Tallied(out, created, deleted, direct) ==
    /\ Handled(out)
    /\ n_created' = [c \in CourseIds |-> n_created[c] + (IF c \in created THEN 1 ELSE 0)]
    /\ n_deleted' = [c \in CourseIds |-> n_deleted[c] + (IF c \in deleted THEN 1 ELSE 0)]
    /\ set_directly' = set_directly \cup direct
    /\ UNCHANGED <<running, addresses>>

\* The course an enrollment write moves an enrollment to.
Moved(out, enrollment_id) ==
    IF /\ Succeeded(out.response)
       /\ Lookup(out.enrollments, enrollment_id).course_id
              # Lookup(enrollments, enrollment_id).course_id
    THEN {Lookup(out.enrollments, enrollment_id).course_id}
    ELSE {}

CreatePersonH ==
    \E person \in PersonCreate(Students), id \in uuid4(db, "persons", PersonIds) :
        Tallied(create_person(db, person, id), {}, {}, {})
UpdatePersonH ==
    \E id \in PersonIds, update \in PersonUpdate(Students) :
        Tallied(update_person(db, id, update), {}, {}, {})
CreateCourseH ==
    \E course \in {c \in CourseCreate : c.is_active} :
        \E id \in (IF course.id = None THEN uuid4(db, "courses", CourseIds)
                                       ELSE {course.id[1]}) :
            Tallied(create_course(db, course, id), {}, {},
                    IF id \in issued.courses \/ course.current_enrollment # 0
                    THEN {id} ELSE {})
ReplaceCourseH ==
    \E id \in CourseIds, course \in {c \in CourseCreate : c.is_active} :
        /\ course.id = None
        /\ LET out == replace_course(db, id, course) IN
           Tallied(out, {}, {}, IF Succeeded(out.response) THEN {id} ELSE {})
UpdateCourseH ==
    \E id \in CourseIds,
       update \in {u \in CourseUpdate : u.is_active # Given(Some(FALSE))} :
        Tallied(update_course(db, id, update), {}, {}, {})
DeleteCourseH ==
    \E id \in CourseIds : Tallied(delete_course(db, id), {}, {}, {})
CreateEnrollmentH ==
    \E enrollment \in EnrollmentCreate(Students, Pending),
       id \in uuid4(db, "enrollments", EnrollmentIds) :
        LET out == create_enrollment(db, enrollment, id) IN
        Tallied(out,
                IF Succeeded(out.response) THEN {enrollment.course_id} ELSE {},
                {}, {})
ReplaceEnrollmentH ==
    \E id \in EnrollmentIds, enrollment \in EnrollmentCreate(Students, Pending) :
        LET out == replace_enrollment(db, id, enrollment) IN
        Tallied(out, {}, {}, Moved(out, id))
UpdateEnrollmentH ==
    \E id \in EnrollmentIds, update \in EnrollmentUpdate(Students, {}) :
        LET out == update_enrollment(db, id, update) IN
        Tallied(out, {}, {}, Moved(out, id))
DeleteEnrollmentH ==
    \E id \in EnrollmentIds :
        LET out == delete_enrollment(db, id) IN
        Tallied(out, {},
                IF Succeeded(out.response)
                THEN {Lookup(enrollments, id).course_id} ELSE {},
                {})

NextHistory ==
    \/ CreatePersonH
    \/ UpdatePersonH
    \/ CreateCourseH
    \/ ReplaceCourseH
    \/ UpdateCourseH
    \/ DeleteCourseH
    \/ CreateEnrollmentH
    \/ ReplaceEnrollmentH
    \/ UpdateEnrollmentH
    \/ DeleteEnrollmentH

SpecHistory == Init /\ [][NextHistory]_vars

(***************************************************************************)
(* The properties of the service.  A property of one call is stated of the *)
(* handler, applied to the stores of every reachable state and to every    *)
(* payload; a scenario applies the handlers one after the other.           *)
(***************************************************************************)
Max0(n) == IF n > 0 THEN n ELSE 0

\* The payloads the properties range over.
AnyEnrollment == EnrollmentCreate(Unis, {"pending", "active"})
AnyEnrollmentUpdate == EnrollmentUpdate(Students, {})
NextEnrollmentId == uuid4(db, "enrollments", EnrollmentIds)

\* C1, as claimed: in every reachable state the counter of every stored
\* course equals max(0, successful creations referencing it minus successful
\* deletions of enrollments that referenced it).
C1_CounterEqualsCreationsMinusDeletions ==
    \A c \in DOMAIN courses :
        courses[c].current_enrollment = Max0(n_created[c] - n_deleted[c])

\* C1, amended: the equation holds of every stored course whose counter was
\* not set directly, that is: which was created with current_enrollment 0
\* under an identifier never used before, was never replaced (PUT), and to
\* which no enrollment was moved by replace_enrollment or update_enrollment.
C1_CounterEqualsTalliesUnlessSetDirectly ==
    \A c \in DOMAIN courses \ set_directly :
        courses[c].current_enrollment = Max0(n_created[c] - n_deleted[c])

\* C1 witness: a course not set directly that has seen a creation and a
\* deletion, and holds an enrollment.
C1_Witness ==
    \E c \in DOMAIN courses \ set_directly :
        /\ n_created[c] = 2
        /\ n_deleted[c] = 1
        /\ courses[c].current_enrollment = 1

\* C2: a create_enrollment call for an existing student and an existing,
\* active course that is not full succeeds, appends exactly one record under
\* an identifier that was not a key of the store, and adds exactly 1 to that
\* course's counter; every other course, every other enrollment and the
\* persons are unchanged.
C2_CreateEnrollmentStoresAndCounts ==
    \A enrollment \in AnyEnrollment, id \in NextEnrollmentId :
        (/\ \E p \in DOMAIN persons : persons[p].uni = enrollment.student_uni
         /\ enrollment.course_id \in DOMAIN courses
         /\ courses[enrollment.course_id].is_active
         /\ \/ courses[enrollment.course_id].max_enrollment = None
            \/ courses[enrollment.course_id].current_enrollment
                   < courses[enrollment.course_id].max_enrollment[1])
        => LET out == create_enrollment(db, enrollment, id) IN
           /\ out.response.status = 201
           /\ id \notin Keys(enrollments)
           /\ out.enrollments =
                  Append(enrollments,
                         [id |-> id,
                          student_uni |-> enrollment.student_uni,
                          course_id |-> enrollment.course_id,
                          status |-> enrollment.status])
           /\ DOMAIN out.courses = DOMAIN courses
           /\ \A c \in DOMAIN courses :
                  out.courses[c] =
                      IF c = enrollment.course_id
                      THEN [courses[c] EXCEPT !.current_enrollment = @ + 1]
                      ELSE courses[c]
           /\ out.persons = persons

\* C2 witness: an eligible call that succeeds while another course and
\* another enrollment are stored.
C2_Witness ==
    \E enrollment \in AnyEnrollment, id \in NextEnrollmentId :
        /\ Succeeded(create_enrollment(db, enrollment, id).response)
        /\ DOMAIN courses = CourseIds
        /\ enrollments # <<>>
        /\ courses[enrollment.course_id].max_enrollment # None

\* C3: the capacity scenario.  With a person and an active course of
\* max_enrollment 1 and counter 0, a first create_enrollment succeeds and the
\* counter is 1; a second fails with CapacityError; delete_enrollment of the
\* first brings the counter to 0; a further create_enrollment succeeds.
C3_CapacityScenario ==
    \A uni \in Unis, c \in DOMAIN courses :
        (/\ \E p \in DOMAIN persons : persons[p].uni = uni
         /\ courses[c].is_active
         /\ courses[c].max_enrollment = Some(1)
         /\ courses[c].current_enrollment = 0)
        => \A first \in NextEnrollmentId :
           LET enrollment == [student_uni |-> uni, course_id |-> c, status |-> "pending"]
               o1 == create_enrollment(db, enrollment, first)
           IN  /\ Succeeded(o1.response)
               /\ o1.courses[c].current_enrollment = 1
               /\ \A second \in uuid4(o1, "enrollments", EnrollmentIds) :
                  LET o2 == create_enrollment(o1, enrollment, second)
                      o3 == delete_enrollment(o2, first)
                      o4 == create_enrollment(o3, enrollment, second)
                  IN  /\ CapacityError(o2.response)
                      /\ o2.courses[c].current_enrollment = 1
                      /\ o2.enrollments = o1.enrollments
                      /\ Succeeded(o3.response)
                      /\ o3.courses[c].current_enrollment = 0
                      /\ Succeeded(o4.response)
                      /\ o4.courses[c].current_enrollment = 1
                      /\ Keys(o4.enrollments) = Keys(enrollments) \cup {second}

\* C3 witness: the end of the scenario: the first enrollment is gone, the
\* second holds the only seat of a course of max_enrollment 1.
C3_Witness ==
    /\ issued.enrollments = {1, 2}
    /\ Keys(enrollments) = {2}
    /\ \E c \in DOMAIN courses :
        /\ courses[c].max_enrollment = Some(1)
        /\ courses[c].current_enrollment = 1
        /\ enrollments[1].course_id = c

C5_InactiveCourseAlwaysPreconditionError ==
    \A enrollment \in AnyEnrollment, id \in NextEnrollmentId :
        (/\ enrollment.course_id \in DOMAIN courses
         /\ ~courses[enrollment.course_id].is_active)
        => LET out == create_enrollment(db, enrollment, id) IN
           /\ PreconditionError(out.response)
           /\ out.courses = courses
           /\ out.enrollments = enrollments

\* C5, amended: such a call always fails and leaves the counter and the
\* enrollments unchanged; the error is PreconditionError when a person with
\* the payload's student_uni exists (the student check comes first).
C5_InactiveCourseAlwaysFails ==
    \A enrollment \in AnyEnrollment, id \in NextEnrollmentId :
        (/\ enrollment.course_id \in DOMAIN courses
         /\ ~courses[enrollment.course_id].is_active)
        => LET out == create_enrollment(db, enrollment, id) IN
           /\ ~Succeeded(out.response)
           /\ out.courses = courses
           /\ out.enrollments = enrollments
           /\ ((\E p \in DOMAIN persons : persons[p].uni = enrollment.student_uni)
               => PreconditionError(out.response))

\* C5 witness: a call against an inactive course with room, by an existing
\* student, answered with PreconditionError.
C5_Witness ==
    \E enrollment \in AnyEnrollment, id \in NextEnrollmentId :
        /\ enrollment.course_id \in DOMAIN courses
        /\ ~courses[enrollment.course_id].is_active
        /\ courses[enrollment.course_id].max_enrollment = None
        /\ PreconditionError(create_enrollment(db, enrollment, id).response)

\* C6: create_enrollment fails with ReferenceError whenever no stored person
\* has the payload's student_uni, and whenever the payload's course_id is not
\* a key of courses; in both cases nothing is stored.
C6_UnknownStudentOrCourseIsReferenceError ==
    \A enrollment \in AnyEnrollment, id \in NextEnrollmentId :
        (\/ ~\E p \in DOMAIN persons : persons[p].uni = enrollment.student_uni
         \/ enrollment.course_id \notin DOMAIN courses)
        => LET out == create_enrollment(db, enrollment, id) IN
           /\ ReferenceError(out.response)
           /\ out.enrollments = enrollments
           /\ out.courses = courses

\* C6 witness: a person is stored, under another uni than the one asked for,
\* the course exists, and the call is answered with ReferenceError.
C6_Witness ==
    \E enrollment \in AnyEnrollment, id \in NextEnrollmentId :
        /\ persons # <<>>
        /\ enrollment.course_id \in DOMAIN courses
        /\ courses[enrollment.course_id].is_active
        /\ ReferenceError(create_enrollment(db, enrollment, id).response)

\* A response that is one of the four error kinds; a call that left the
\* three collections as they were.
Failed(r) ==
    NotFoundError(r) \/ ReferenceError(r) \/ PreconditionError(r) \/ CapacityError(r)

SameStores(out) ==
    /\ out.persons = persons
    /\ out.courses = courses
    /\ out.enrollments = enrollments

\* C7: a create_enrollment, replace_enrollment, update_enrollment or
\* delete_enrollment call that returns NotFound, Reference, Precondition or
\* Capacity leaves persons, courses and enrollments exactly as they were.
C7_FailedEnrollmentCallWritesNothing ==
    /\ \A enrollment \in AnyEnrollment, id \in NextEnrollmentId :
        LET out == create_enrollment(db, enrollment, id) IN
        Failed(out.response) => SameStores(out)
    /\ \A id \in EnrollmentIds, enrollment \in AnyEnrollment :
        LET out == replace_enrollment(db, id, enrollment) IN
        Failed(out.response) => SameStores(out)
    /\ \A id \in EnrollmentIds, update \in AnyEnrollmentUpdate :
        LET out == update_enrollment(db, id, update) IN
        Failed(out.response) => SameStores(out)
    /\ \A id \in EnrollmentIds :
        LET out == delete_enrollment(db, id) IN
        Failed(out.response) => SameStores(out)

\* C7 witness: a stored enrollment whose replacement is refused because the
\* course it names is inactive, and whose move by update_enrollment is
\* refused because the course it names is gone.
C7_Witness ==
    \E id \in Keys(enrollments), c \in DOMAIN courses, gone \in CourseIds \ DOMAIN courses :
        /\ PreconditionError(
               replace_enrollment(db, id,
                   [student_uni |-> "abc1234", course_id |-> c, status |-> "pending"]).response)
        /\ ReferenceError(
               update_enrollment(db, id,
                   [student_uni |-> Unset, course_id |-> Given(Some(gone)),
                    status |-> Unset]).response)

\* C8: a successful delete_enrollment(id) removes exactly the record id and,
\* if the record's course_id is a key of courses, sets that course's counter
\* to max(0, current_enrollment - 1); if it is not, the delete still succeeds
\* and no course changes.
C8_DeleteEnrollmentRemovesAndDecrements ==
    \A id \in Keys(enrollments) :
        LET out == delete_enrollment(db, id)
            c == (CHOOSE e \in {enrollments[i] : i \in DOMAIN enrollments} : e.id = id).course_id
        IN  /\ Succeeded(out.response)
            /\ out.enrollments = SelectSeq(enrollments, LAMBDA e : e.id # id)
            /\ Len(out.enrollments) = Len(enrollments) - 1
            /\ DOMAIN out.courses = DOMAIN courses
            /\ \A k \in DOMAIN courses :
                   out.courses[k] =
                       IF k = c
                       THEN [courses[k] EXCEPT
                                !.current_enrollment = Max0(courses[k].current_enrollment - 1)]
                       ELSE courses[k]
            /\ out.persons = persons

\* C8 witness: two stored enrollments, one of a course whose counter is 0
\* (the floor), the other of a course that is gone.
C8_Witness ==
    /\ Len(enrollments) = 2
    /\ \E i, j \in DOMAIN enrollments :
        /\ enrollments[i].course_id \in DOMAIN courses
        /\ courses[enrollments[i].course_id].current_enrollment = 0
        /\ enrollments[j].course_id \notin DOMAIN courses

\* C9: delete_enrollment on an identifier that is not a key of enrollments
\* fails with NotFoundError and changes nothing; deleting the same identifier
\* twice, the second call fails with NotFoundError and the counters are as
\* the first call left them.
C9_DeleteAbsentIsNotFound ==
    /\ \A id \in EnrollmentIds \ Keys(enrollments) :
        LET out == delete_enrollment(db, id) IN
        /\ NotFoundError(out.response)
        /\ SameStores(out)
    /\ \A id \in Keys(enrollments) :
        LET once == delete_enrollment(db, id)
            twice == delete_enrollment(once, id)
        IN  /\ Succeeded(once.response)
            /\ NotFoundError(twice.response)
            /\ twice.courses = once.courses
            /\ twice.enrollments = once.enrollments

\* C9 witness: an enrollment was deleted, its course still counts another
\* one, and deleting it again is answered with NotFoundError.
C9_Witness ==
    \E id \in issued.enrollments \ Keys(enrollments), c \in DOMAIN courses :
        /\ courses[c].current_enrollment = 1
        /\ \E i \in DOMAIN enrollments : enrollments[i].course_id = c
        /\ NotFoundError(delete_enrollment(db, id).response)

\* What the calls that are not a whole-course write do to the counters of
\* the courses stored before the call: create_enrollment adds 1 to the course
\* it names, delete_enrollment takes 1 (floored at 0) from the course of the
\* record, and no other call changes one.
CountersAfter(out, changed, change) ==
    \A c \in DOMAIN courses \cap DOMAIN out.courses :
        out.courses[c].current_enrollment =
            courses[c].current_enrollment + (IF c \in changed THEN change ELSE 0)

CounterFrame ==
    /\ \A enrollment \in AnyEnrollment, id \in NextEnrollmentId :
        LET out == create_enrollment(db, enrollment, id) IN
        /\ DOMAIN out.courses = DOMAIN courses
        /\ CountersAfter(out,
               IF Succeeded(out.response) THEN {enrollment.course_id} ELSE {}, 1)
    /\ \A id \in EnrollmentIds :
        LET out == delete_enrollment(db, id) IN
        /\ DOMAIN out.courses = DOMAIN courses
        /\ CountersAfter(out,
               IF Succeeded(out.response)
               THEN {c \in DOMAIN courses :
                        /\ courses[c].current_enrollment > 0
                        /\ \E i \in DOMAIN enrollments :
                               enrollments[i].id = id /\ enrollments[i].course_id = c}
               ELSE {},
               -1)
    /\ \A id \in EnrollmentIds, enrollment \in AnyEnrollment :
        replace_enrollment(db, id, enrollment).courses = courses
    /\ \A id \in EnrollmentIds, update \in AnyEnrollmentUpdate :
        update_enrollment(db, id, update).courses = courses
    /\ \A id \in PersonIds, update \in PersonUpdate(Unis) :
        update_person(db, id, update).courses = courses
    /\ \A person \in PersonCreate(Unis), id \in uuid4(db, "persons", PersonIds) :
        create_person(db, person, id).courses = courses
    /\ \A id \in CourseIds : CountersAfter(delete_course(db, id), {}, 0)
    /\ \A id \in CourseIds, update \in CourseUpdate :
        LET out == update_course(db, id, update) IN
        /\ DOMAIN out.courses = DOMAIN courses
        /\ CountersAfter(out, {}, 0)

CourseUpdateBody ==
    [is_active : Sparse(Optional(BOOLEAN)),
     max_enrollment : Sparse(Optional(1..MaxCapacity)),
     current_enrollment : Sparse(0..MaxEnrollments)]

CourseUpdateOf(body) ==
    [is_active |-> body.is_active, max_enrollment |-> body.max_enrollment]

\* C11, as claimed: a PATCH of a course whose body carries a
\* current_enrollment different from the stored one overwrites the stored
\* counter.
C11_PatchOverwritesCounter ==
    \A c \in DOMAIN courses, body \in CourseUpdateBody :
        (/\ body.current_enrollment # Unset
         /\ body.current_enrollment[1] # courses[c].current_enrollment)
        => LET out == update_course(db, c, CourseUpdateOf(body)) IN
           Succeeded(out.response)
               => out.courses[c].current_enrollment = body.current_enrollment[1]

\* C11, amended: a PATCH of a course is guarded with respect to the counter.
\* A body that carries a current_enrollment different from the stored one
\* leaves the stored counter as it is, whether the PATCH succeeds or not, so
\* a PATCH on a course cannot desynchronize the counter.
C11_PatchKeepsCounter ==
    \A c \in DOMAIN courses, update \in CourseUpdate :
        LET out == update_course(db, c, update) IN
        \A n \in 0..MaxEnrollments \ {courses[c].current_enrollment} :
            LET body == [is_active |-> update.is_active,
                         max_enrollment |-> update.max_enrollment,
                         current_enrollment |-> Given(n)]
            IN  CourseUpdateOf(body) = update
                => /\ c \in DOMAIN out.courses
                   /\ out.courses[c].current_enrollment
                          = courses[c].current_enrollment
                   /\ out.enrollments = enrollments

\* C11 witness: a course that counts its one enrollment, and a PATCH with
\* current_enrollment 0 and a new max_enrollment that succeeds and changes
\* max_enrollment only.
C11_Witness ==
    \E c \in DOMAIN courses :
        /\ courses[c].current_enrollment = 1
        /\ courses[c].max_enrollment = None
        /\ \E i \in DOMAIN enrollments : enrollments[i].course_id = c
        /\ LET out == update_course(db, c,
                        CourseUpdateOf([is_active |-> Unset,
                                        max_enrollment |-> Given(Some(1)),
                                        current_enrollment |-> Given(0)]))
           IN  /\ Succeeded(out.response)
               /\ out.courses[c] = [courses[c] EXCEPT !.max_enrollment = Some(1)]

\* C12: a successful replace_enrollment(id, payload) overwrites the record id
\* in place, under the same identifier, leaves every other enrollment and
\* every course as it was, also when the payload names another course than
\* the stored record: the old course is not decremented and the new one is
\* not incremented.
C12_ReplaceEnrollmentOverwritesOneRecord ==
    \A id \in EnrollmentIds, enrollment \in AnyEnrollment :
        LET out == replace_enrollment(db, id, enrollment) IN
        Succeeded(out.response)
        => /\ id \in Keys(enrollments)
           /\ Len(out.enrollments) = Len(enrollments)
           /\ \A i \in DOMAIN enrollments :
                  out.enrollments[i] =
                      IF enrollments[i].id = id
                      THEN [id |-> id,
                            student_uni |-> enrollment.student_uni,
                            course_id |-> enrollment.course_id,
                            status |-> enrollment.status]
                      ELSE enrollments[i]
           /\ out.courses = courses
           /\ out.persons = persons

\* C12 witness: two stored enrollments of one course, and a replacement of
\* the first that names the other course and succeeds.
C12_Witness ==
    /\ Len(enrollments) = 2
    /\ enrollments[1].course_id = enrollments[2].course_id
    /\ \E c \in DOMAIN courses \ {enrollments[1].course_id} :
        /\ enrollments[1].course_id \in DOMAIN courses
        /\ courses[enrollments[1].course_id].current_enrollment = 2
        /\ courses[c].current_enrollment = 0
        /\ Succeeded(replace_enrollment(db, enrollments[1].id,
               [student_uni |-> "abc1234", course_id |-> c,
                status |-> "active"]).response)

\* C13, as claimed: replace_enrollment applies the checks of
\* create_enrollment to the payload: on a stored identifier it fails with
\* ReferenceError if no person has the payload's student_uni or the
\* payload's course_id is not a key of courses, with PreconditionError if
\* the course is inactive, and with CapacityError if the course is full.
C13_ReplaceEnrollmentChecksAsCreate ==
    \A id \in Keys(enrollments), enrollment \in AnyEnrollment :
        LET r == replace_enrollment(db, id, enrollment).response
            known == \E p \in DOMAIN persons : persons[p].uni = enrollment.student_uni
            stored == enrollment.course_id \in DOMAIN courses
        IN  /\ (~known \/ ~stored) => ReferenceError(r)
            /\ (known /\ stored /\ ~courses[enrollment.course_id].is_active)
                   => PreconditionError(r)
            /\ (/\ known /\ stored /\ courses[enrollment.course_id].is_active
                /\ courses[enrollment.course_id].max_enrollment # None
                /\ courses[enrollment.course_id].current_enrollment
                       >= courses[enrollment.course_id].max_enrollment[1])
                   => CapacityError(r)

\* C13 witness: the call the claim is wrong about: a replacement naming a
\* student_uni no person has and an active course with room, which succeeds.
C13_Witness ==
    \E id \in Keys(enrollments), enrollment \in AnyEnrollment :
        /\ ~\E p \in DOMAIN persons : persons[p].uni = enrollment.student_uni
        /\ enrollment.course_id \in DOMAIN courses
        /\ Succeeded(replace_enrollment(db, id, enrollment).response)

\* C14: update_enrollment checks neither is_active nor the capacity and never
\* changes a course: a PATCH of a stored enrollment that only sets course_id
\* to a stored course that is inactive or full succeeds and stores that
\* course_id, and courses is the same before and after every call.
C14_UpdateEnrollmentIgnoresActiveAndCapacity ==
    /\ \A id \in EnrollmentIds, update \in AnyEnrollmentUpdate :
        update_enrollment(db, id, update).courses = courses
    /\ \A id \in Keys(enrollments), c \in DOMAIN courses :
        (\/ ~courses[c].is_active
         \/ /\ courses[c].max_enrollment # None
            /\ courses[c].current_enrollment >= courses[c].max_enrollment[1])
        => LET out == update_enrollment(db, id,
                          [student_uni |-> Unset, course_id |-> Given(Some(c)),
                           status |-> Unset])
           IN  /\ Succeeded(out.response)
               /\ \E i \in DOMAIN out.enrollments :
                      out.enrollments[i].id = id /\ out.enrollments[i].course_id = c

\* C14 witness: an enrollment of one course, and another course that is
\* inactive and full, to which a PATCH moves the enrollment.
C14_Witness ==
    \E id \in Keys(enrollments), c \in DOMAIN courses :
        /\ ~courses[c].is_active
        /\ courses[c].max_enrollment # None
        /\ courses[c].current_enrollment >= courses[c].max_enrollment[1]
        /\ \A i \in DOMAIN enrollments : enrollments[i].course_id # c
        /\ Succeeded(update_enrollment(db, id,
               [student_uni |-> Unset, course_id |-> Given(Some(c)),
                status |-> Unset]).response)

\* C15, as claimed: update_enrollment(id, partial) fails with NotFoundError
\* if id is not a key of enrollments; otherwise, if the partial payload
\* carries a course_id that is not a key of courses, it fails with
\* ReferenceError; otherwise it succeeds.  (A course_id sent as null names no
\* course: either of the last two outcomes is taken to meet the claim.)
C15_UpdateEnrollmentOutcomes ==
    \A id \in EnrollmentIds, update \in EnrollmentUpdate(Unis, Pending) :
        LET r == update_enrollment(db, id, update).response IN
        IF id \notin Keys(enrollments)
        THEN NotFoundError(r)
        ELSE IF update.course_id # Unset /\ update.course_id[1] = None
        THEN ReferenceError(r) \/ Succeeded(r)
        ELSE IF update.course_id # Unset /\ update.course_id[1][1] \notin DOMAIN courses
        THEN ReferenceError(r)
        ELSE Succeeded(r)

\* C15 witness: the call the claim is wrong about: a PATCH of a stored
\* enrollment that sends null for student_uni and nothing else, answered
\* with a server error.
C15_Witness ==
    \E id \in Keys(enrollments) :
        update_enrollment(db, id,
            [student_uni |-> Given(None), course_id |-> Unset,
             status |-> Unset]).response.status = 500

\* C16, as claimed: on update_enrollment the student_uni is validated exactly
\* when the partial payload changes it: a PATCH that sets student_uni to a
\* value no stored person has is rejected, and a PATCH that leaves
\* student_uni out is not rejected for the student of the stored record.
C16_UpdateEnrollmentValidatesChangedStudent ==
    \A id \in Keys(enrollments) :
        /\ \A uni \in Unis :
            (~\E p \in DOMAIN persons : persons[p].uni = uni)
            => ~Succeeded(update_enrollment(db, id,
                   [student_uni |-> Given(Some(uni)), course_id |-> Unset,
                    status |-> Unset]).response)
        /\ Succeeded(update_enrollment(db, id,
               [student_uni |-> Unset, course_id |-> Unset,
                status |-> Given(Some("active"))]).response)

\* C16 witness: the call the claim is wrong about: a stored enrollment, and a
\* PATCH that sets its student_uni to one no person has and succeeds.
C16_Witness ==
    \E id \in Keys(enrollments), uni \in Unis :
        /\ persons # <<>>
        /\ \A p \in DOMAIN persons : persons[p].uni # uni
        /\ \E i \in DOMAIN enrollments :
               enrollments[i].id = id /\ enrollments[i].student_uni # uni
        /\ Succeeded(update_enrollment(db, id,
               [student_uni |-> Given(Some(uni)), course_id |-> Unset,
                status |-> Unset]).response)

\* C17: the course_id of every stored enrollment was a key of courses at the
\* last successful write that set it.  The writes that set the field are
\* create_enrollment, replace_enrollment and an update_enrollment whose
\* payload supplies course_id; each of them, when it succeeds, stores a
\* course_id that is a key of courses at the call, and no other call changes
\* the course_id of a stored enrollment.  In every reachable state the
\* course_id of a stored enrollment has therefore been a key of courses.
C17_CourseExistedAtLastWrite ==
    /\ \A i \in DOMAIN enrollments : enrollments[i].course_id \in issued.courses
    /\ \A enrollment \in AnyEnrollment, id \in NextEnrollmentId :
        LET out == create_enrollment(db, enrollment, id) IN
        Succeeded(out.response)
        => /\ enrollment.course_id \in DOMAIN courses
           /\ Lookup(out.enrollments, id).course_id = enrollment.course_id
    /\ \A id \in EnrollmentIds, enrollment \in AnyEnrollment :
        LET out == replace_enrollment(db, id, enrollment) IN
        Succeeded(out.response)
        => /\ enrollment.course_id \in DOMAIN courses
           /\ Lookup(out.enrollments, id).course_id = enrollment.course_id
    /\ \A id \in EnrollmentIds, update \in AnyEnrollmentUpdate :
        LET out == update_enrollment(db, id, update) IN
        Succeeded(out.response)
        => IF update.course_id = Unset
           THEN Lookup(out.enrollments, id).course_id
                    = Lookup(enrollments, id).course_id
           ELSE /\ update.course_id[1] # None
                /\ update.course_id[1][1] \in DOMAIN courses
                /\ Lookup(out.enrollments, id).course_id = update.course_id[1][1]
    /\ \A id \in EnrollmentIds :
        LET out == delete_enrollment(db, id) IN
        \A k \in Keys(out.enrollments) :
            Lookup(out.enrollments, k) = Lookup(enrollments, k)
    /\ \A id \in CourseIds :
        /\ delete_course(db, id).enrollments = enrollments
        /\ \A update \in CourseUpdate :
               update_course(db, id, update).enrollments = enrollments
        /\ \A course \in CourseCreate :
               replace_course(db, id, course).enrollments = enrollments
    /\ \A course \in CourseCreate :
        \A id \in (IF course.id = None THEN uuid4(db, "courses", CourseIds)
                                       ELSE {course.id[1]}) :
            create_course(db, course, id).enrollments = enrollments

\* C17 witness: a stored enrollment whose course has since been deleted (the
\* property is about the moment of the write), and a PATCH that moves it to
\* the course that is stored.
C17_Witness ==
    \E id \in Keys(enrollments), c \in DOMAIN courses :
        /\ Lookup(enrollments, id).course_id \notin DOMAIN courses
        /\ Succeeded(update_enrollment(db, id,
               [student_uni |-> Unset, course_id |-> Given(Some(c)),
                status |-> Unset]).response)

\* C18, as claimed: identifiers never change and are never reused.  No
\* replace or update changes the identifier a record is stored under, and a
\* creation stores one new record under an identifier that is neither in use
\* nor was ever used in its collection, leaving the stored records as they
\* were.
C18_IdentifiersNeverChangeNorReused ==
    /\ \A id \in CourseIds, course \in CourseCreate :
        DOMAIN replace_course(db, id, course).courses = DOMAIN courses
    /\ \A id \in CourseIds, update \in CourseUpdate :
        DOMAIN update_course(db, id, update).courses = DOMAIN courses
    /\ \A id \in EnrollmentIds, enrollment \in AnyEnrollment :
        LET out == replace_enrollment(db, id, enrollment) IN
        /\ Len(out.enrollments) = Len(enrollments)
        /\ \A i \in DOMAIN enrollments : out.enrollments[i].id = enrollments[i].id
    /\ \A id \in EnrollmentIds, update \in AnyEnrollmentUpdate :
        LET out == update_enrollment(db, id, update) IN
        /\ Len(out.enrollments) = Len(enrollments)
        /\ \A i \in DOMAIN enrollments : out.enrollments[i].id = enrollments[i].id
    /\ \A id \in PersonIds, update \in PersonUpdate(Unis) :
        DOMAIN update_person(db, id, update).persons = DOMAIN persons
    /\ \A enrollment \in AnyEnrollment, id \in NextEnrollmentId :
        LET out == create_enrollment(db, enrollment, id) IN
        Succeeded(out.response)
        => /\ Keys(out.enrollments) \ Keys(enrollments) = {id}
           /\ id \notin issued.enrollments
           /\ \A k \in Keys(enrollments) :
                  Lookup(out.enrollments, k) = Lookup(enrollments, k)
    /\ \A course \in CourseCreate :
        \A id \in (IF course.id = None THEN uuid4(db, "courses", CourseIds)
                                       ELSE {course.id[1]}) :
            LET out == create_course(db, course, id) IN
            /\ Cardinality(DOMAIN out.courses \ DOMAIN courses) = 1
            /\ DOMAIN out.courses \cap issued.courses = DOMAIN courses
            /\ \A k \in DOMAIN courses : out.courses[k] = courses[k]

\* C18 witness: the calls the claim is wrong about: a course is stored and
\* another was deleted; a create_course carrying the identifier of the first
\* replaces its record, and one carrying the identifier of the second stores
\* a course under it again.
C18_Witness ==
    \E used \in DOMAIN courses, gone \in issued.courses \ DOMAIN courses :
        \E course \in CourseCreate :
            /\ course.id = None
            /\ CourseRead(course) # courses[used]
            /\ create_course(db, [course EXCEPT !.id = Some(used)], used).courses[used]
                   = CourseRead(course)
            /\ gone \in DOMAIN create_course(db, [course EXCEPT !.id = Some(gone)],
                                             gone).courses

(***************************************************************************)
(* The service under concurrent requests.  The handlers are plain def      *)
(* functions, which the framework runs on worker threads, and main.py      *)
(* takes no lock: the statements of two requests interleave.  A step is    *)
(* one access of a thread to the shared stores: the checks of a handler    *)
(* (taken together, which leaves out interleavings but adds none), the     *)
(* write of the enrollment, the load and the store of the counter that     *)
(* "+= 1" and "max(0, ... - 1)" are made of, and the del.  The courses are *)
(* created active, with counter 0, under identifiers of the server.        *)
(***************************************************************************)
At(t, pc) == running[t].pc = pc

Goto(t, pc, enrollment, counter) ==
    running' = [running EXCEPT
                   ![t] = [pc |-> pc, enrollment |-> enrollment, counter |-> counter]]

\* main.py:247-260: the checks of create_enrollment; a refused request ends.
create_enrollment_validate(t, enrollment) ==
    /\ At(t, "idle")
    /\ IF Succeeded(create_enrollment(db, enrollment, 0).response)
       THEN Goto(t, "store", Some(enrollment), 0)
       ELSE UNCHANGED running
    /\ UNCHANGED <<persons, courses, enrollments, issued>>

\* main.py:262-263: enrollments[enrollment_read.id] = enrollment_read
create_enrollment_store(t) ==
    /\ At(t, "store")
    /\ \E id \in uuid4(db, "enrollments", EnrollmentIds) :
        /\ enrollments' = DictSet(enrollments, id,
                                  EnrollmentRead(id, running[t].enrollment[1]))
        /\ issued' = [issued EXCEPT !.enrollments = @ \cup {id}]
    /\ Goto(t, "load", running[t].enrollment, 0)
    /\ UNCHANGED <<persons, courses>>

\* main.py:266: the load of course.current_enrollment in "+= 1"
create_enrollment_load(t) ==
    /\ At(t, "load")
    /\ Goto(t, "increment", running[t].enrollment,
            courses[running[t].enrollment[1].course_id].current_enrollment)
    /\ UNCHANGED <<persons, courses, enrollments, issued>>

\* main.py:266-268: the store of "+= 1", courses[...] = course, return
create_enrollment_increment(t) ==
    /\ At(t, "increment")
    /\ courses' = [courses EXCEPT
                      ![running[t].enrollment[1].course_id].current_enrollment =
                          running[t].counter + 1]
    /\ Goto(t, "idle", None, 0)
    /\ UNCHANGED <<persons, enrollments, issued>>

\* main.py:341-346: the check of delete_enrollment, enrollments[enrollment_id]
delete_enrollment_validate(t, enrollment_id) ==
    /\ At(t, "idle")
    /\ IF enrollment_id \in Keys(enrollments)
       THEN Goto(t, "load_for_delete", Some(Lookup(enrollments, enrollment_id)), 0)
       ELSE UNCHANGED running
    /\ UNCHANGED <<persons, courses, enrollments, issued>>

\* main.py:348: the load of course.current_enrollment in max(0, ... - 1)
delete_enrollment_load(t) ==
    /\ At(t, "load_for_delete")
    /\ Goto(t, "decrement", running[t].enrollment,
            courses[running[t].enrollment[1].course_id].current_enrollment)
    /\ UNCHANGED <<persons, courses, enrollments, issued>>

\* main.py:348-349: the store of max(0, ... - 1), courses[...] = course
delete_enrollment_decrement(t) ==
    /\ At(t, "decrement")
    /\ courses' = [courses EXCEPT
                      ![running[t].enrollment[1].course_id].current_enrollment =
                          IF running[t].counter - 1 > 0
                          THEN running[t].counter - 1 ELSE 0]
    /\ Goto(t, "del", running[t].enrollment, 0)
    /\ UNCHANGED <<persons, enrollments, issued>>

\* main.py:351: del enrollments[enrollment_id]; a KeyError when another
\* request has deleted it ends the request with 500.
delete_enrollment_del(t) ==
    /\ At(t, "del")
    /\ enrollments' = DictDel(enrollments, running[t].enrollment[1].id)
    /\ Goto(t, "idle", None, 0)
    /\ UNCHANGED <<persons, courses, issued>>

\* The requests that set the scene write one store in one statement.
CreatePersonT ==
    \E person \in PersonCreate(Students), id \in uuid4(db, "persons", PersonIds) :
        Handled(create_person(db, person, id)) /\ UNCHANGED running
CreateCourseT ==
    \E course \in CourseCreate, id \in uuid4(db, "courses", CourseIds) :
        /\ course.id = None /\ course.is_active /\ course.current_enrollment = 0
        /\ Handled(create_course(db, course, id))
        /\ UNCHANGED running
CreateEnrollmentT ==
    \E t \in Threads :
        \/ \E enrollment \in EnrollmentCreate(Students, Pending) :
               create_enrollment_validate(t, enrollment)
        \/ create_enrollment_store(t)
        \/ create_enrollment_load(t)
        \/ create_enrollment_increment(t)
DeleteEnrollmentT ==
    \E t \in Threads :
        \/ \E id \in EnrollmentIds : delete_enrollment_validate(t, id)
        \/ delete_enrollment_load(t)
        \/ delete_enrollment_decrement(t)
        \/ delete_enrollment_del(t)

NextThreads ==
    \/ CreatePersonT /\ UNCHANGED <<history, addresses>>
    \/ CreateCourseT /\ UNCHANGED <<history, addresses>>
    \/ CreateEnrollmentT /\ UNCHANGED <<history, addresses>>
    \/ DeleteEnrollmentT /\ UNCHANGED <<history, addresses>>

SpecThreads == Init /\ [][NextThreads]_vars

\* The number of stored enrollments that reference course c.
Enrolled(c) ==
    Cardinality({i \in DOMAIN enrollments : enrollments[i].course_id = c})

\* C19, as claimed: under concurrent requests no reader observes a stored
\* enrollment whose course has not counted it, or a counter decremented for
\* an enrollment that is still stored: in every state the stores can be read
\* in, the counter of every course is the number of stored enrollments that
\* reference it.
C19_ReadersSeeCounterWithEnrollment ==
    \A c \in DOMAIN courses : courses[c].current_enrollment = Enrolled(c)

\* C19 witness: what a reader can observe: a request has stored its
\* enrollment and has not incremented the counter yet.
C19_Witness ==
    \E t \in Threads :
        /\ running[t].pc \in {"load", "increment"}
        /\ courses[running[t].enrollment[1].course_id].current_enrollment = 0
        /\ Enrolled(running[t].enrollment[1].course_id) = 1

\* C20, as claimed: the check-and-write sequences of create_enrollment and
\* delete_enrollment are atomic with respect to each other.  When every
\* request has returned, the stores are as some serial order of the requests
\* leaves them: no course holds more enrollments than its max_enrollment,
\* and the counter of every course is the number of stored enrollments that
\* reference it (no increment lost, no enrollment decremented twice).
C20_InterleavingsAreSerializable ==
    (\A t \in Threads : running[t].pc = "idle")
    => \A c \in DOMAIN courses :
           /\ courses[c].current_enrollment = Enrolled(c)
           /\ courses[c].max_enrollment # None
                  => Enrolled(c) <= courses[c].max_enrollment[1]

\* C20 witness: every request has returned and a course of max_enrollment 1
\* holds two enrollments: two concurrent creations both passed the capacity
\* check.
C20_Witness ==
    /\ \A t \in Threads : running[t].pc = "idle"
    /\ \E c \in DOMAIN courses :
        /\ courses[c].max_enrollment = Some(1)
        /\ Enrolled(c) = 2

(***************************************************************************)
(* Cross-resource endpoints (main.py:357-378).  A query reads the stores   *)
(* and writes none of them: it returns a response and the list that is its *)
(* body.  The lists are built by iterating enrollments.values(), which     *)
(* goes through the records in the order of the dict.                      *)
(***************************************************************************)
Answer(status, detail, body) ==
    [response |-> [status |-> status, detail |-> detail], body |-> body]

\* [e for e in enrollments.values() if e.student_uni == student_uni]
OfStudent(s, student_uni) ==
    SelectSeq(s.enrollments, LAMBDA e : e.student_uni = student_uni)

\* A query for a student that lists the enrollments of every student.
get_student_enrollments_unfiltered(s, student_uni) ==
    IF ~StudentExists(s, student_uni)
    THEN Answer(404, "Student not found", <<>>)
    ELSE Answer(200, "", s.enrollments)

get_student_enrollments(s, student_uni) ==
    IF ~StudentExists(s, student_uni)
    THEN Answer(404, "Student not found", <<>>)
    ELSE Answer(200, "", OfStudent(s, student_uni))

get_course_enrollments(s, course_id) ==
    IF course_id \notin DOMAIN s.courses
    THEN Answer(404, "Course not found", <<>>)
    ELSE Answer(200, "", SelectSeq(s.enrollments, LAMBDA e : e.course_id = course_id))

\* The CourseRead stored under cid: the record carries the key as its id.
CourseOf(s, cid) ==
    [id |-> cid,
     is_active |-> s.courses[cid].is_active,
     max_enrollment |-> s.courses[cid].max_enrollment,
     current_enrollment |-> s.courses[cid].current_enrollment]

\* [courses[cid] for cid in course_ids if cid in courses], from the left.
RECURSIVE Resolved(_, _)
Resolved(s, student_enrollments) ==
    IF student_enrollments = <<>>
    THEN <<>>
    ELSE LET cid == Head(student_enrollments).course_id
             rest == Resolved(s, Tail(student_enrollments))
         IN  IF cid \in DOMAIN s.courses THEN <<CourseOf(s, cid)>> \o rest ELSE rest

\* A query that looks every course_id up, stored or not: a KeyError on a
\* dangling reference, answered with a server error.
get_student_courses_strict(s, student_uni) ==
    IF ~StudentExists(s, student_uni)
    THEN Answer(404, "Student not found", <<>>)
    ELSE IF \E i \in DOMAIN s.enrollments :
                /\ s.enrollments[i].student_uni = student_uni
                /\ s.enrollments[i].course_id \notin DOMAIN s.courses
    THEN Answer(500, "Internal Server Error", <<>>)
    ELSE Answer(200, "", Resolved(s, OfStudent(s, student_uni)))

get_student_courses(s, student_uni) ==
    IF ~StudentExists(s, student_uni)
    THEN Answer(404, "Student not found", <<>>)
    ELSE Answer(200, "", Resolved(s, OfStudent(s, student_uni)))

(***************************************************************************)
(* The service with its queries.  The enrollments belong to either         *)
(* student, and a course is created under an identifier of the server; the *)
(* person of the model changes its uni, so that both students have been    *)
(* known.  A query changes no store.                                       *)
(***************************************************************************)
Stores == <<persons, courses, enrollments, issued>>

CreateCourseQ ==
    \E course \in CourseCreate, id \in uuid4(db, "courses", CourseIds) :
        course.id = None /\ Handled(create_course(db, course, id))
CreateEnrollmentQ ==
    \E enrollment \in EnrollmentCreate(Unis, Pending),
       id \in uuid4(db, "enrollments", EnrollmentIds) :
        Handled(create_enrollment(db, enrollment, id))
ReplaceEnrollmentQ ==
    \E id \in EnrollmentIds, enrollment \in EnrollmentCreate(Unis, Pending) :
        Handled(replace_enrollment(db, id, enrollment))
UpdateEnrollmentQ ==
    \E id \in EnrollmentIds, update \in EnrollmentUpdate(Unis, {}) :
        Handled(update_enrollment(db, id, update))
GetStudentEnrollments ==
    \E student_uni \in Unis :
        /\ get_student_enrollments(db, student_uni).response.status \in {200, 404}
        /\ UNCHANGED Stores
GetCourseEnrollments ==
    \E course_id \in CourseIds :
        /\ get_course_enrollments(db, course_id).response.status \in {200, 404}
        /\ UNCHANGED Stores
GetStudentCourses ==
    \E student_uni \in Unis :
        /\ get_student_courses(db, student_uni).response.status \in {200, 404}
        /\ UNCHANGED Stores

NextQueries ==
    \/ CreatePerson /\ UNCHANGED <<history, running, addresses>>
    \/ UpdatePerson /\ UNCHANGED <<history, running, addresses>>
    \/ CreateCourseQ /\ UNCHANGED <<history, running, addresses>>
    \/ DeleteCourse /\ UNCHANGED <<history, running, addresses>>
    \/ CreateEnrollmentQ /\ UNCHANGED <<history, running, addresses>>
    \/ ReplaceEnrollmentQ /\ UNCHANGED <<history, running, addresses>>
    \/ UpdateEnrollmentQ /\ UNCHANGED <<history, running, addresses>>
    \/ DeleteEnrollment /\ UNCHANGED <<history, running, addresses>>
    \/ GetStudentEnrollments /\ UNCHANGED <<history, running, addresses>>
    \/ GetCourseEnrollments /\ UNCHANGED <<history, running, addresses>>
    \/ GetStudentCourses /\ UNCHANGED <<history, running, addresses>>

SpecQueries == Init /\ [][NextQueries]_vars

\* The identifiers of a sequence of records, in its order.
IdsOf(d) == [i \in DOMAIN d |-> d[i].id]

\* The k-th smallest element of a set of integers.
Nth(S, k) == CHOOSE i \in S : Cardinality({j \in S : j < i}) = k - 1

\* C21: get_student_enrollments(uni) fails with NotFoundError when no stored
\* person has that uni; otherwise it succeeds and returns exactly the stored
\* enrollments whose student_uni is uni, in the order of the store (an empty
\* list when there is none).  The order of the store is the order of first
\* insertion: a creation appends its record, a replacement or a partial
\* update leaves every record at its position, and a deletion takes one
\* record out and leaves the others in their order.
C21_EnrollmentsForStudentInInsertionOrder ==
    /\ \A uni \in Unis :
        LET out == get_student_enrollments(db, uni)
            own == {i \in DOMAIN enrollments : enrollments[i].student_uni = uni}
        IN  IF \A p \in DOMAIN persons : persons[p].uni # uni
            THEN NotFoundError(out.response)
            ELSE /\ Succeeded(out.response)
                 /\ Len(out.body) = Cardinality(own)
                 /\ \A k \in 1..Cardinality(own) :
                        out.body[k] = enrollments[Nth(own, k)]
    /\ \A enrollment \in AnyEnrollment, id \in NextEnrollmentId :
        LET out == create_enrollment(db, enrollment, id) IN
        Succeeded(out.response)
        => IdsOf(out.enrollments) = Append(IdsOf(enrollments), id)
    /\ \A id \in EnrollmentIds, enrollment \in AnyEnrollment :
        IdsOf(replace_enrollment(db, id, enrollment).enrollments) = IdsOf(enrollments)
    /\ \A id \in EnrollmentIds, update \in AnyEnrollmentUpdate :
        IdsOf(update_enrollment(db, id, update).enrollments) = IdsOf(enrollments)
    /\ \A id \in EnrollmentIds :
        IdsOf(delete_enrollment(db, id).enrollments)
            = SelectSeq(IdsOf(enrollments), LAMBDA k : k # id)

\* C21 witness: the person holds one uni, the first stored enrollment is of
\* the other student and the second of this one, so the query returns the
\* second only; a replacement gives the first to this student, after which
\* the query returns both, the replaced one first.
C21_Witness ==
    /\ Len(enrollments) = 2
    /\ enrollments[1].student_uni = "xy123"
    /\ enrollments[2].student_uni = "abc1234"
    /\ \E p \in DOMAIN persons : persons[p].uni = "abc1234"
    /\ get_student_enrollments(db, "abc1234").body = <<enrollments[2]>>
    /\ NotFoundError(get_student_enrollments(db, "xy123").response)
    /\ \E c \in DOMAIN courses :
        LET out == replace_enrollment(db, enrollments[1].id,
                       [student_uni |-> "abc1234", course_id |-> c,
                        status |-> "active"])
        IN  /\ Succeeded(out.response)
            /\ IdsOf(get_student_enrollments(out, "abc1234").body)
                   = <<enrollments[1].id, enrollments[2].id>>

\* C22: get_student_courses(uni) fails with NotFoundError when no stored
\* person has that uni; otherwise it succeeds, whatever the enrollments
\* reference, and returns one course for each stored enrollment of the
\* student whose course_id is a key of courses, in the order of the store:
\* a course enrolled twice appears twice, and an enrollment whose course_id
\* is not a key of courses contributes nothing.
C22_CoursesForStudentDropsDangling ==
    \A uni \in Unis :
        LET out == get_student_courses(db, uni)
            own == {i \in DOMAIN enrollments :
                       /\ enrollments[i].student_uni = uni
                       /\ enrollments[i].course_id \in DOMAIN courses}
        IN  IF \A p \in DOMAIN persons : persons[p].uni # uni
            THEN NotFoundError(out.response)
            ELSE /\ Succeeded(out.response)
                 /\ Len(out.body) = Cardinality(own)
                 /\ \A k \in 1..Cardinality(own) :
                        LET cid == enrollments[Nth(own, k)].course_id IN
                        /\ out.body[k].id = cid
                        /\ out.body[k].is_active = courses[cid].is_active
                        /\ out.body[k].max_enrollment = courses[cid].max_enrollment
                        /\ out.body[k].current_enrollment
                               = courses[cid].current_enrollment

\* C22 witness: a known student with two enrollments, the first in a course
\* that has been deleted and the second in a stored one: the query returns
\* the stored course alone; once the first is moved to the stored course too,
\* the query returns that course twice.
C22_Witness ==
    /\ Len(enrollments) = 2
    /\ \A i \in 1..2 : enrollments[i].student_uni = "abc1234"
    /\ enrollments[1].course_id \notin DOMAIN courses
    /\ enrollments[2].course_id \in DOMAIN courses
    /\ LET c == enrollments[2].course_id
           out == update_enrollment(db, enrollments[1].id,
                      [student_uni |-> Unset, course_id |-> Given(Some(c)),
                       status |-> Unset])
       IN  /\ get_student_courses(db, "abc1234").body = <<CourseOf(db, c)>>
           /\ Succeeded(out.response)
           /\ get_student_courses(out, "abc1234").body
                  = <<CourseOf(db, c), CourseOf(db, c)>>

(***************************************************************************)
(* Address endpoints (main.py:62-67, 98-105).  models/address.py is not    *)
(* part of the sources at hand: an address is modelled with the fields the *)
(* filters of list_addresses read, one that is required (street) and one   *)
(* that may be null (state).  The payload of a creation carries the id the *)
(* address is stored under.                                                *)
(***************************************************************************)
AddressIds == {"a1"}
Streets == {"1 Main St", "2 Oak Ave"}
States == {"NY"}

AddressCreate == [id : AddressIds, street : Streets, state : Optional(States)]
AddressUpdate ==
    [street : Sparse(Optional(Streets)), state : Sparse(Optional(States))]

\* AddressRead(**address.model_dump()), without the id it is stored under.
AddressRead(address) == [street |-> address.street, state |-> address.state]

\* The address store as a handler is given it.
book == [addresses |-> addresses, response |-> NoResponse]

create_address(s, address) ==
    IF address.id \in DOMAIN s.addresses
    THEN HTTPException(s, 400, "Address with this ID already exists")
    ELSE Return([s EXCEPT !.addresses = Put(@, address.id, AddressRead(address))],
                201)

update_address(s, address_id, update) ==
    IF address_id \notin DOMAIN s.addresses
    THEN HTTPException(s, 404, "Address not found")
    ELSE LET stored == s.addresses[address_id]
             street == Merged(Some(stored.street), update.street)
             state == Merged(stored.state, update.state)
         IN  IF street = None
             THEN ValidationError(s)
             ELSE Return([s EXCEPT !.addresses = Put(@, address_id,
                              [street |-> street[1], state |-> state])],
                         200)

(***************************************************************************)
(* The service with its partial updates: addresses, courses and            *)
(* enrollments are created and then updated in part.                       *)
(***************************************************************************)
CreateAddress ==
    \E address \in AddressCreate :
        /\ addresses' = create_address(book, address).addresses
        /\ UNCHANGED Stores
UpdateAddress ==
    \E id \in AddressIds, update \in AddressUpdate :
        /\ addresses' = update_address(book, id, update).addresses
        /\ UNCHANGED Stores

NextPartial ==
    \/ CreateAddress /\ UNCHANGED <<history, running>>
    \/ UpdateAddress /\ UNCHANGED <<history, running>>
    \/ CreatePersonT /\ UNCHANGED <<history, addresses>>
    \/ CreateCourseQ /\ UNCHANGED <<history, running, addresses>>
    \/ UpdateCourse /\ UNCHANGED <<history, running, addresses>>
    \/ CreateEnrollment /\ UNCHANGED <<history, running, addresses>>
    \/ UpdateEnrollment /\ UNCHANGED <<history, running, addresses>>

SpecPartial == Init /\ [][NextPartial]_vars

\* What a field of a stored record is after a successful merge: the stored
\* value when the payload leaves the field out, the value sent otherwise.
Kept(stored, field) == IF field = Unset THEN stored ELSE field[1]

Active == {"active"}

\* C23: a successful partial update stores, under the same identifier, a
\* record in which every field the payload leaves out has its stored value
\* and every field the payload supplies has the supplied value, and leaves
\* every other record as it was.  So an update with an empty payload
\* succeeds and leaves the record as it was, and the same update applied to
\* the result succeeds and leaves the result as it is.  This holds for
\* update_course, update_enrollment and update_address.
C23_PartialUpdateMerges ==
    /\ \A id \in DOMAIN courses, update \in CourseUpdate :
        LET out == update_course(db, id, update)
            twice == update_course(out, id, update)
        IN  /\ Succeeded(out.response)
               => /\ DOMAIN out.courses = DOMAIN courses
                  /\ \A c \in DOMAIN courses \ {id} : out.courses[c] = courses[c]
                  /\ Some(out.courses[id].is_active)
                         = Kept(Some(courses[id].is_active), update.is_active)
                  /\ out.courses[id].max_enrollment
                         = Kept(courses[id].max_enrollment, update.max_enrollment)
                  /\ out.courses[id].current_enrollment
                         = courses[id].current_enrollment
                  /\ Succeeded(twice.response)
                  /\ twice.courses = out.courses
            /\ (update.is_active = Unset /\ update.max_enrollment = Unset)
               => Succeeded(out.response) /\ out.courses = courses
    /\ \A id \in Keys(enrollments), update \in EnrollmentUpdate(Unis, Active) :
        LET out == update_enrollment(db, id, update)
            twice == update_enrollment(out, id, update)
            stored == Lookup(enrollments, id)
        IN  /\ Succeeded(out.response)
               => /\ IdsOf(out.enrollments) = IdsOf(enrollments)
                  /\ \A k \in Keys(enrollments) \ {id} :
                         Lookup(out.enrollments, k) = Lookup(enrollments, k)
                  /\ Some(Lookup(out.enrollments, id).student_uni)
                         = Kept(Some(stored.student_uni), update.student_uni)
                  /\ Some(Lookup(out.enrollments, id).course_id)
                         = Kept(Some(stored.course_id), update.course_id)
                  /\ Some(Lookup(out.enrollments, id).status)
                         = Kept(Some(stored.status), update.status)
                  /\ Succeeded(twice.response)
                  /\ twice.enrollments = out.enrollments
            /\ (/\ update.student_uni = Unset /\ update.course_id = Unset
                /\ update.status = Unset)
               => Succeeded(out.response) /\ out.enrollments = enrollments
    /\ \A id \in DOMAIN addresses, update \in AddressUpdate :
        LET out == update_address(book, id, update)
            twice == update_address(out, id, update)
        IN  /\ Succeeded(out.response)
               => /\ DOMAIN out.addresses = DOMAIN addresses
                  /\ Some(out.addresses[id].street)
                         = Kept(Some(addresses[id].street), update.street)
                  /\ out.addresses[id].state
                         = Kept(addresses[id].state, update.state)
                  /\ Succeeded(twice.response)
                  /\ twice.addresses = out.addresses
            /\ (update.street = Unset /\ update.state = Unset)
               => Succeeded(out.response) /\ out.addresses = addresses

\* C23 witness: a stored course, enrollment and address, and three partial
\* updates that succeed and change one field each: a course that leaves
\* is_active and the counter and gets a max_enrollment, an enrollment that
\* leaves its student and course and gets a status, and an address that
\* leaves its street and loses its state.
C23_Witness ==
    \E c \in DOMAIN courses, id \in Keys(enrollments), a \in DOMAIN addresses :
        /\ courses[c].max_enrollment = None
        /\ courses[c].current_enrollment = 1
        /\ Lookup(enrollments, id).course_id = c
        /\ addresses[a].state = Some("NY")
        /\ update_course(db, c,
               [is_active |-> Unset, max_enrollment |-> Given(Some(1))]).courses[c]
               = [courses[c] EXCEPT !.max_enrollment = Some(1)]
        /\ Lookup(update_enrollment(db, id,
               [student_uni |-> Unset, course_id |-> Unset,
                status |-> Given(Some("active"))]).enrollments, id)
               = [Lookup(enrollments, id) EXCEPT !.status = "active"]
        /\ update_address(book, a,
               [street |-> Unset, state |-> Given(None)]).addresses[a]
               = [addresses[a] EXCEPT !.state = None]

(***************************************************************************)
(* The service when the courses are set up first and only enrollments are  *)
(* created and deleted afterwards, one request at a time.  The persons and *)
(* the courses are created while no enrollment has been created; a course  *)
(* payload carries the default current_enrollment, 0.  An enrollment is    *)
(* created with any status.                                                *)
(***************************************************************************)
CreatePersonFirst ==
    /\ issued.enrollments = {}
    /\ \E person \in PersonCreate(Students), id \in uuid4(db, "persons", PersonIds) :
           Handled(create_person(db, person, id))
CreateCourseFirst ==
    /\ issued.enrollments = {}
    /\ \E course \in CourseCreate :
        \E id \in (IF course.id = None THEN uuid4(db, "courses", CourseIds)
                                       ELSE {course.id[1]}) :
            /\ course.current_enrollment = 0
            /\ Handled(create_course(db, course, id))
CreateEnrollmentOfAnyStatus ==
    \E enrollment \in EnrollmentCreate(Students, EnrollmentStatus),
       id \in uuid4(db, "enrollments", EnrollmentIds) :
        Handled(create_enrollment(db, enrollment, id))

NextCounted ==
    \/ CreatePersonFirst /\ UNCHANGED <<history, running, addresses>>
    \/ CreateCourseFirst /\ UNCHANGED <<history, running, addresses>>
    \/ CreateEnrollmentOfAnyStatus /\ UNCHANGED <<history, running, addresses>>
    \/ DeleteEnrollment /\ UNCHANGED <<history, running, addresses>>

SpecCounted == Init /\ [][NextCounted]_vars

\* C24: when every course is created with current_enrollment 0 and only
\* create_enrollment and delete_enrollment run afterwards, one at a time,
\* then in every reachable state the counter of every course is the number
\* of stored enrollments whose course_id is that course, whatever their
\* status, and it does not exceed a max_enrollment that is not null.
C24_CounterIsNumberOfEnrollments ==
    \A c \in DOMAIN courses :
        /\ courses[c].current_enrollment = Enrolled(c)
        /\ courses[c].max_enrollment # None
               => courses[c].current_enrollment <= courses[c].max_enrollment[1]

\* C24 witness: an enrollment has been deleted, and a course of
\* max_enrollment 1 counts the one stored enrollment, which is withdrawn.
C24_Witness ==
    /\ issued.enrollments \ Keys(enrollments) # {}
    /\ \E c \in DOMAIN courses, i \in DOMAIN enrollments :
        /\ courses[c].max_enrollment = Some(1)
        /\ courses[c].current_enrollment = 1
        /\ enrollments[i].course_id = c
        /\ enrollments[i].status = "withdrawn"

\* C25: in every state the requests of the service reach one after another,
\* the counter of every stored course is at least 0; a delete_enrollment of
\* an enrollment whose course has its counter at 0 succeeds and leaves the
\* counter at 0.
C25_CounterIsNeverNegative ==
    /\ \A c \in DOMAIN courses : courses[c].current_enrollment >= 0
    /\ \A i \in DOMAIN enrollments :
        LET c == enrollments[i].course_id
            out == delete_enrollment(db, enrollments[i].id)
        IN  (c \in DOMAIN courses /\ courses[c].current_enrollment = 0)
            => /\ Succeeded(out.response)
               /\ out.courses[c].current_enrollment = 0

\* C25 witness: a stored enrollment of a stored course whose counter a
\* replacement of the course has put back to 0, and its deletion, which
\* leaves the counter at 0.
C25_Witness ==
    \E i \in DOMAIN enrollments :
        LET c == enrollments[i].course_id IN
        /\ c \in DOMAIN courses
        /\ courses[c].current_enrollment = 0
        /\ LET out == delete_enrollment(db, enrollments[i].id) IN
           /\ enrollments[i].id \notin Keys(out.enrollments)
           /\ out.courses[c].current_enrollment = 0

\* C26: delete_course on a stored course succeeds, removes that course
\* record and no other, and leaves enrollments and persons as they were: the
\* enrollments that reference the course stay stored with their course_id.
\* After it, get_student_enrollments answers for every uni what it answered
\* before, the enrollments of the deleted course among them, and
\* get_course_enrollments for the deleted course fails with NotFoundError.
C26_DeleteCourseDoesNotCascade ==
    \A c \in DOMAIN courses :
        LET out == delete_course(db, c) IN
        /\ Succeeded(out.response)
        /\ DOMAIN out.courses = DOMAIN courses \ {c}
        /\ \A k \in DOMAIN out.courses : out.courses[k] = courses[k]
        /\ out.enrollments = enrollments
        /\ out.persons = persons
        /\ \A uni \in Unis :
               get_student_enrollments(out, uni) = get_student_enrollments(db, uni)
        /\ \A i \in DOMAIN enrollments :
               (/\ enrollments[i].course_id = c
                /\ \E p \in DOMAIN persons : persons[p].uni = enrollments[i].student_uni)
               => \E k \in DOMAIN get_student_enrollments(out, enrollments[i].student_uni).body :
                      get_student_enrollments(out, enrollments[i].student_uni).body[k]
                          = enrollments[i]
        /\ NotFoundError(get_course_enrollments(out, c).response)

\* C26 witness: two stored courses, and an enrollment of a known student in
\* one of them, which get_course_enrollments returns; after delete_course
\* the other course is stored, the query for the deleted course is not
\* found, and the query for the student returns the enrollment.
C26_Witness ==
    \E c \in DOMAIN courses, i \in DOMAIN enrollments :
        /\ DOMAIN courses # {c}
        /\ enrollments[i].course_id = c
        /\ \E p \in DOMAIN persons : persons[p].uni = enrollments[i].student_uni
        /\ get_course_enrollments(db, c).body # <<>>
        /\ LET out == delete_course(db, c) IN
           /\ c \notin DOMAIN out.courses
           /\ out.courses # <<>>
           /\ get_course_enrollments(out, c).response.status = 404
           /\ get_student_enrollments(out, enrollments[i].student_uni).body # <<>>

\* The payloads that keep the course of the stored enrollment id.
SameCourse(id) ==
    {enrollment \in AnyEnrollment :
        enrollment.course_id = Lookup(enrollments, id).course_id}

\* A stored course whose counter has reached a max_enrollment that is not null.
AtCapacity(c) ==
    /\ c \in DOMAIN courses
    /\ courses[c].max_enrollment # None
    /\ courses[c].current_enrollment >= courses[c].max_enrollment[1]

\* C27, as claimed: a replace_enrollment whose payload keeps the course_id of
\* the stored enrollment fails with CapacityError whenever that course is
\* full, and leaves the stores as they were.
C27_ReplaceOnFullCourseIsCapacityError ==
    \A id \in Keys(enrollments) :
        \A enrollment \in SameCourse(id) :
            AtCapacity(enrollment.course_id)
            => LET out == replace_enrollment(db, id, enrollment) IN
               CapacityError(out.response) /\ SameStores(out)

\* C27, amended: a replace_enrollment whose payload keeps the course_id of
\* the stored enrollment fails whenever that course is full, the seat of the
\* replaced enrollment counted, and leaves the stores as they were: with
\* CapacityError if the course is active, and with PreconditionError if it
\* is not, since is_active is checked first.
C27_ReplaceOnFullCourseFails ==
    \A id \in Keys(enrollments) :
        \A enrollment \in SameCourse(id) :
            AtCapacity(enrollment.course_id)
            => LET out == replace_enrollment(db, id, enrollment) IN
               /\ IF courses[enrollment.course_id].is_active
                  THEN CapacityError(out.response)
                  ELSE PreconditionError(out.response)
               /\ SameStores(out)

\* C27 witness: an active course of max_enrollment 1 whose one seat is held
\* by the stored enrollment, and a replacement of that enrollment that keeps
\* the course and changes the status, refused with CapacityError.
C27_Witness ==
    \E i \in DOMAIN enrollments :
        LET c == enrollments[i].course_id IN
        /\ c \in DOMAIN courses
        /\ courses[c].is_active
        /\ courses[c].max_enrollment = Some(1)
        /\ courses[c].current_enrollment = 1
        /\ Enrolled(c) = 1
        /\ CapacityError(replace_enrollment(db, enrollments[i].id,
               [student_uni |-> enrollments[i].student_uni, course_id |-> c,
                status |-> "active"]).response)

=============================================================================
